---- MODULE Spec2Model ----
(***************************************************************************)
(* Confidential-commitment token (con_privacy_token.py) as a state machine *)
(* over its stores: balance_commitments, approvals, nonces, metadata and   *)
(* next_tx_id.  Every exported function is one action; a call is executed  *)
(* by the handler operator of the same name, which follows the code line   *)
(* by line against a working copy of the stores and stops at the first     *)
(* failing assert.  The host then commits the working copy or, when the    *)
(* call raised, discards it.                                               *)
(*                                                                         *)
(* The field modulus is scaled down to a small prime so that TLC can       *)
(* enumerate it; python integers are unbounded, so no width is modelled.   *)
(* Plain amounts (a float in the code) are modelled as integers.           *)
(***************************************************************************)
EXTENDS Integers, FiniteSets, Sequences, TLC

\* ---------------------------------------------------------------------------
\* Bounds of the model
\* ---------------------------------------------------------------------------
\* committed calls explored: any operation at heights 1..MaxTx; a delegated
\* transfer, which needs a balance record and an approval to exist first, one
\* call deeper
MaxTx == 2
\* commitment arguments are drawn from 0..MaxInt; MaxInt >= p, so that values
\* outside the field are presented to the ledger too
MaxInt == 5
\* plain amounts are drawn from -MaxAmount..MaxAmount, 0 excepted
MaxAmount == 1

\* ---------------------------------------------------------------------------
\* Parameters & helpers
\* ---------------------------------------------------------------------------
\* modulus of the field (2**255 - 19 in the code; a small prime here)
p == 5

ZERO_COMMITMENT == 1

OK == "ok"

Addr == {"operator", "alice", "bob"}
\* ctx.caller of the constructor
Deployer == "operator"

Ints == 0..MaxInt
\* plain amounts, either sign
Amounts == ((0 - MaxAmount)..MaxAmount) \ {0}
\* nonces presented: stale, expected and future ones
Nonces == 0..(MaxTx + 1)

RECURSIVE mod_exp_loop(_, _, _, _)
\* the while loop of mod_exp: one iteration per bit of the exponent
mod_exp_loop(result, base, exponent, modulus) ==
    IF exponent > 0
    THEN mod_exp_loop(IF exponent % 2 = 1 THEN (result * base) % modulus ELSE result,
                      (base * base) % modulus,
                      exponent \div 2,
                      modulus)
    ELSE result

\* variant: the exponent is shifted before its low bit is tested
mod_exp_shift_first(base, exponent, modulus) ==
    IF exponent = 0 THEN 1 ELSE mod_exp_loop(1, base % modulus, exponent \div 2, modulus)

mod_exp(base, exponent, modulus) ==
    IF exponent = 0 THEN 1 ELSE mod_exp_loop(1, base % modulus, exponent, modulus)

mod_inverse(x, modulus) == mod_exp(x, modulus - 2, modulus)

\* variant: the expected commitment is not reduced
verify_commitment_addition_unreduced(old_commitment, amount_commitment, new_commitment) ==
    LET expected_new == old_commitment * amount_commitment
    IN new_commitment = expected_new

verify_commitment_addition(old_commitment, amount_commitment, new_commitment) ==
    LET expected_new == (old_commitment * amount_commitment) % p
    IN new_commitment = expected_new

verify_commitment_subtraction(old_commitment, new_commitment, amount_commitment) ==
    LET expected_old == (new_commitment * amount_commitment) % p
    IN old_commitment = expected_old

\* python's `x or default` on a number: 0 (and None) is falsy
OrDefault(x, default) == IF x = 0 THEN default ELSE x

\* ---------------------------------------------------------------------------
\* State
\* ---------------------------------------------------------------------------
VARIABLES
    balance_commitments,  \* address -> [commitment, last_updated, updates]; absent = not in DOMAIN
    approvals,            \* <<owner, spender>> -> [commitment, approved_at]
    nonces,               \* address -> int
    metadata,             \* [operator, total_supply, supply_commitment] (name, symbol: never read)
    next_tx_id,           \* counter for events
    block_num,            \* height the host passes to the next call
    result,               \* Returned, or [op, caller, err] of the call just rejected by an assert
    last_call,            \* [op, caller] of the last committed call
    calc,                 \* a helper function under evaluation: [fn, args, out]
    events                \* the events emitted so far, oldest first: [event, tx_id]

ledger == <<balance_commitments, approvals, nonces, metadata, next_tx_id>>
vars == <<balance_commitments, approvals, nonces, metadata, next_tx_id, block_num, result,
          last_call, calc, events>>

\* Hash.__setitem__
Put(f, k, v) == [x \in (DOMAIN f) \cup {k} |-> IF x = k THEN v ELSE f[x]]

\* The stores as one value: the working copy a handler writes to.
Stores ==
    [err |-> OK,
     balance_commitments |-> balance_commitments,
     approvals |-> approvals,
     nonces |-> nonces,
     metadata |-> metadata,
     next_tx_id |-> next_tx_id,
     events |-> << >>]

\* a failing `assert cond, msg`: execution stops with the writes made so far pending
Raise(s, msg) == [s EXCEPT !.err = msg]

\* the host's report of a call that returned
Returned == [op |-> "none", caller |-> "none", err |-> OK]

\* no helper function is under evaluation
NoCalc == [fn |-> "none", args |-> << >>, out |-> << >>]

seed ==
    /\ balance_commitments = << >>
    /\ approvals = << >>
    /\ nonces = << >>
    /\ metadata = [operator |-> Deployer, total_supply |-> 0, supply_commitment |-> ZERO_COMMITMENT]
    /\ next_tx_id = 1

Init ==
    /\ seed
    /\ block_num = 1
    /\ result = Returned
    /\ last_call = [op |-> "seed", caller |-> Deployer]
    /\ calc = NoCalc
    /\ events = << >>

\* ---------------------------------------------------------------------------
\* Views
\* ---------------------------------------------------------------------------
get_nonce(address) == IF address \in DOMAIN nonces THEN nonces[address] ELSE 0

get_balance_commitment(address) ==
    IF address \notin DOMAIN balance_commitments
    THEN [exists |-> FALSE, commitment |-> ZERO_COMMITMENT, last_updated |-> 0, updates |-> 0]
    ELSE [exists |-> TRUE,
          commitment |-> balance_commitments[address].commitment,
          last_updated |-> balance_commitments[address].last_updated,
          updates |-> balance_commitments[address].updates]

get_confidential_approval(owner, spender) ==
    IF <<owner, spender>> \notin DOMAIN approvals
    THEN [exists |-> FALSE, owner |-> owner, spender |-> spender,
          commitment |-> ZERO_COMMITMENT, approved_at |-> 0]
    ELSE [exists |-> TRUE, owner |-> owner, spender |-> spender,
          commitment |-> approvals[<<owner, spender>>].commitment,
          approved_at |-> approvals[<<owner, spender>>].approved_at]

RECURSIVE Product(_, _)
Product(f, keys) ==
    IF keys = {} THEN 1
    ELSE LET k == CHOOSE x \in keys : TRUE
         IN (Product(f, keys \ {k}) * f[k].commitment) % p

verify_supply_invariant ==
    LET prod == Product(balance_commitments, DOMAIN balance_commitments)
        expected == metadata.supply_commitment
    IN [ok |-> prod = expected,
        product |-> prod,
        expected |-> expected,
        accounts |-> Cardinality(DOMAIN balance_commitments)]

\* ---------------------------------------------------------------------------
\* Core
\* ---------------------------------------------------------------------------
\* variant: any nonce above the stored one is taken
bump_nonce_at_least(s, addr, provided) ==
    LET current == IF addr \in DOMAIN s.nonces THEN s.nonces[addr] ELSE 0
    IN IF provided < current + 1
       THEN Raise(s, "Bad nonce")
       ELSE [s EXCEPT !.nonces = Put(s.nonces, addr, provided)]

bump_nonce(s, addr, provided) ==
    LET current == IF addr \in DOMAIN s.nonces THEN s.nonces[addr] ELSE 0
    IN IF provided # current + 1
       THEN Raise(s, "Bad nonce")
       ELSE [s EXCEPT !.nonces = Put(s.nonces, addr, provided)]

\* next_tx(): the counter advances; the id handed out is the old value
\* variant: the counter is read but not advanced
next_tx_stuck(s) == s

next_tx(s) == [s EXCEPT !.next_tx_id = s.next_tx_id + 1]

\* `tx_id = next_tx()` and the event that carries it; of the event's payload
\* the kind and the tx_id are kept
Emit(s, event) ==
    LET tx_id == s.next_tx_id
    IN [next_tx(s) EXCEPT !.events = Append(@, [event |-> event, tx_id |-> tx_id])]

\* commitment of a record that may be absent (`data['commitment'] if data else ZERO_COMMITMENT`)
CommitmentOr(f, k) == IF k \in DOMAIN f THEN f[k].commitment ELSE ZERO_COMMITMENT
\* `(0 if data is None else data['updates']) + 1`
UpdatesOr(f, k) == IF k \in DOMAIN f THEN f[k].updates ELSE 0

BalanceRecord(c, f, k) ==
    [commitment |-> c, last_updated |-> block_num, updates |-> UpdatesOr(f, k) + 1]

\* variant: the receiver relation is not checked
confidential_transfer_sender_only(caller, to, amount_commitment, new_sender_commitment, new_receiver_commitment, nonce) ==
    IF to = caller THEN Raise(Stores, "Cannot transfer to self") ELSE
    LET s1 == bump_nonce(Stores, caller, nonce) IN
    IF s1.err # OK THEN s1 ELSE
    LET old == s1.balance_commitments
        current_sender_commitment == CommitmentOr(old, caller)
    IN
    IF ~verify_commitment_subtraction(current_sender_commitment, new_sender_commitment,
                                      amount_commitment)
    THEN Raise(s1, "Sender commitment mismatch") ELSE
    LET b1 == Put(old, caller, BalanceRecord(new_sender_commitment, old, caller))
        b2 == Put(b1, to, BalanceRecord(new_receiver_commitment, old, to))
    IN Emit([s1 EXCEPT !.balance_commitments = b2], "ConfidentialTransfer")

\* variant: the supply commitment is updated as by mint
confidential_transfer_touches_supply(caller, to, amount_commitment, new_sender_commitment, new_receiver_commitment, nonce) ==
    IF to = caller THEN Raise(Stores, "Cannot transfer to self") ELSE
    LET s1 == bump_nonce(Stores, caller, nonce) IN
    IF s1.err # OK THEN s1 ELSE
    LET old == s1.balance_commitments
        current_sender_commitment == CommitmentOr(old, caller)
        current_receiver_commitment == CommitmentOr(old, to)
    IN
    IF ~verify_commitment_subtraction(current_sender_commitment, new_sender_commitment,
                                      amount_commitment)
    THEN Raise(s1, "Sender commitment mismatch") ELSE
    IF ~verify_commitment_addition(current_receiver_commitment, amount_commitment,
                                   new_receiver_commitment)
    THEN Raise(s1, "Receiver commitment mismatch") ELSE
    LET b1 == Put(old, caller, BalanceRecord(new_sender_commitment, old, caller))
        b2 == Put(b1, to, BalanceRecord(new_receiver_commitment, old, to))
        supply_cmt == OrDefault(s1.metadata.supply_commitment, ZERO_COMMITMENT)
        m1 == [s1.metadata EXCEPT !.supply_commitment = (supply_cmt * amount_commitment) % p]
    IN Emit([s1 EXCEPT !.balance_commitments = b2, !.metadata = m1], "ConfidentialTransfer")

confidential_transfer(caller, to, amount_commitment, new_sender_commitment, new_receiver_commitment, nonce) ==
    IF to = caller THEN Raise(Stores, "Cannot transfer to self") ELSE
    LET s1 == bump_nonce(Stores, caller, nonce) IN
    IF s1.err # OK THEN s1 ELSE
    LET old == s1.balance_commitments
        current_sender_commitment == CommitmentOr(old, caller)
        current_receiver_commitment == CommitmentOr(old, to)
    IN
    IF ~verify_commitment_subtraction(current_sender_commitment, new_sender_commitment,
                                      amount_commitment)
    THEN Raise(s1, "Sender commitment mismatch") ELSE
    IF ~verify_commitment_addition(current_receiver_commitment, amount_commitment,
                                   new_receiver_commitment)
    THEN Raise(s1, "Receiver commitment mismatch") ELSE
    LET b1 == Put(old, caller, BalanceRecord(new_sender_commitment, old, caller))
        b2 == Put(b1, to, BalanceRecord(new_receiver_commitment, old, to))
    IN Emit([s1 EXCEPT !.balance_commitments = b2], "ConfidentialTransfer")

\* variant: an existing approval is not replaced
confidential_approve_once(caller, spender, allowance_commitment, nonce) ==
    LET s1 == bump_nonce(Stores, caller, nonce) IN
    IF s1.err # OK THEN s1 ELSE
    IF <<caller, spender>> \in DOMAIN s1.approvals THEN Raise(s1, "Approval exists") ELSE
    LET a1 == Put(s1.approvals, <<caller, spender>>,
                  [commitment |-> allowance_commitment, approved_at |-> block_num])
    IN Emit([s1 EXCEPT !.approvals = a1], "ConfidentialApprove")

confidential_approve(caller, spender, allowance_commitment, nonce) ==
    LET s1 == bump_nonce(Stores, caller, nonce) IN
    IF s1.err # OK THEN s1 ELSE
    LET a1 == Put(s1.approvals, <<caller, spender>>,
                  [commitment |-> allowance_commitment, approved_at |-> block_num])
    IN Emit([s1 EXCEPT !.approvals = a1], "ConfidentialApprove")

\* variant: the self-target guard is missing
confidential_transfer_from_no_guard(caller, owner, to, amount_commitment, new_owner_commitment, new_receiver_commitment, new_allowance_commitment, nonce) ==
    LET s1 == bump_nonce(Stores, caller, nonce) IN
    IF s1.err # OK THEN s1 ELSE
    LET old == s1.balance_commitments IN
    IF owner \notin DOMAIN old THEN Raise(s1, "Owner has no commitment") ELSE
    LET current_owner_commitment == old[owner].commitment
        current_receiver_commitment == CommitmentOr(old, to)
    IN
    IF <<owner, caller>> \notin DOMAIN s1.approvals THEN Raise(s1, "No approval for spender") ELSE
    LET approval == s1.approvals[<<owner, caller>>]
        current_allowance_commitment == approval.commitment
    IN
    IF ~verify_commitment_subtraction(current_owner_commitment, new_owner_commitment,
                                      amount_commitment)
    THEN Raise(s1, "Owner commitment mismatch") ELSE
    IF ~verify_commitment_addition(current_receiver_commitment, amount_commitment,
                                   new_receiver_commitment)
    THEN Raise(s1, "Receiver commitment mismatch") ELSE
    IF ~verify_commitment_subtraction(current_allowance_commitment, new_allowance_commitment,
                                      amount_commitment)
    THEN Raise(s1, "Allowance commitment mismatch") ELSE
    LET b1 == Put(old, owner, [commitment |-> new_owner_commitment,
                               last_updated |-> block_num,
                               updates |-> old[owner].updates + 1])
        b2 == Put(b1, to, BalanceRecord(new_receiver_commitment, old, to))
        a1 == Put(s1.approvals, <<owner, caller>>,
                  [commitment |-> new_allowance_commitment,
                   approved_at |-> approval.approved_at])
    IN Emit([s1 EXCEPT !.balance_commitments = b2, !.approvals = a1], "ConfidentialTransfer")

\* variant: an owner without a record is debited as from ZERO_COMMITMENT
confidential_transfer_from_absent_owner(caller, owner, to, amount_commitment, new_owner_commitment, new_receiver_commitment, new_allowance_commitment, nonce) ==
    IF to = owner THEN Raise(Stores, "Use confidential_transfer for self to self") ELSE
    LET s1 == bump_nonce(Stores, caller, nonce) IN
    IF s1.err # OK THEN s1 ELSE
    LET old == s1.balance_commitments IN
    LET current_owner_commitment == CommitmentOr(old, owner)
        current_receiver_commitment == CommitmentOr(old, to)
    IN
    IF <<owner, caller>> \notin DOMAIN s1.approvals THEN Raise(s1, "No approval for spender") ELSE
    LET approval == s1.approvals[<<owner, caller>>]
        current_allowance_commitment == approval.commitment
    IN
    IF ~verify_commitment_subtraction(current_owner_commitment, new_owner_commitment,
                                      amount_commitment)
    THEN Raise(s1, "Owner commitment mismatch") ELSE
    IF ~verify_commitment_addition(current_receiver_commitment, amount_commitment,
                                   new_receiver_commitment)
    THEN Raise(s1, "Receiver commitment mismatch") ELSE
    IF ~verify_commitment_subtraction(current_allowance_commitment, new_allowance_commitment,
                                      amount_commitment)
    THEN Raise(s1, "Allowance commitment mismatch") ELSE
    LET b1 == Put(old, owner, BalanceRecord(new_owner_commitment, old, owner))
        b2 == Put(b1, to, BalanceRecord(new_receiver_commitment, old, to))
        a1 == Put(s1.approvals, <<owner, caller>>,
                  [commitment |-> new_allowance_commitment,
                   approved_at |-> approval.approved_at])
    IN Emit([s1 EXCEPT !.balance_commitments = b2, !.approvals = a1], "ConfidentialTransfer")

\* variant: the approval is looked up before the owner's record
confidential_transfer_from_approval_first(caller, owner, to, amount_commitment, new_owner_commitment, new_receiver_commitment, new_allowance_commitment, nonce) ==
    IF to = owner THEN Raise(Stores, "Use confidential_transfer for self to self") ELSE
    LET s1 == bump_nonce(Stores, caller, nonce) IN
    IF s1.err # OK THEN s1 ELSE
    LET old == s1.balance_commitments IN
    IF <<owner, caller>> \notin DOMAIN s1.approvals THEN Raise(s1, "No approval for spender") ELSE
    IF owner \notin DOMAIN old THEN Raise(s1, "Owner has no commitment") ELSE
    LET current_owner_commitment == old[owner].commitment
        current_receiver_commitment == CommitmentOr(old, to)
        approval == s1.approvals[<<owner, caller>>]
        current_allowance_commitment == approval.commitment
    IN
    IF ~verify_commitment_subtraction(current_owner_commitment, new_owner_commitment,
                                      amount_commitment)
    THEN Raise(s1, "Owner commitment mismatch") ELSE
    IF ~verify_commitment_addition(current_receiver_commitment, amount_commitment,
                                   new_receiver_commitment)
    THEN Raise(s1, "Receiver commitment mismatch") ELSE
    IF ~verify_commitment_subtraction(current_allowance_commitment, new_allowance_commitment,
                                      amount_commitment)
    THEN Raise(s1, "Allowance commitment mismatch") ELSE
    LET b1 == Put(old, owner, [commitment |-> new_owner_commitment,
                               last_updated |-> block_num,
                               updates |-> old[owner].updates + 1])
        b2 == Put(b1, to, BalanceRecord(new_receiver_commitment, old, to))
        a1 == Put(s1.approvals, <<owner, caller>>,
                  [commitment |-> new_allowance_commitment,
                   approved_at |-> approval.approved_at])
    IN Emit([s1 EXCEPT !.balance_commitments = b2, !.approvals = a1], "ConfidentialTransfer")

\* variant: the allowance is written under (spender, owner)
confidential_transfer_from_swapped_key(caller, owner, to, amount_commitment, new_owner_commitment, new_receiver_commitment, new_allowance_commitment, nonce) ==
    IF to = owner THEN Raise(Stores, "Use confidential_transfer for self to self") ELSE
    LET s1 == bump_nonce(Stores, caller, nonce) IN
    IF s1.err # OK THEN s1 ELSE
    LET old == s1.balance_commitments IN
    IF owner \notin DOMAIN old THEN Raise(s1, "Owner has no commitment") ELSE
    LET current_owner_commitment == old[owner].commitment
        current_receiver_commitment == CommitmentOr(old, to)
    IN
    IF <<owner, caller>> \notin DOMAIN s1.approvals THEN Raise(s1, "No approval for spender") ELSE
    LET approval == s1.approvals[<<owner, caller>>]
        current_allowance_commitment == approval.commitment
    IN
    IF ~verify_commitment_subtraction(current_owner_commitment, new_owner_commitment,
                                      amount_commitment)
    THEN Raise(s1, "Owner commitment mismatch") ELSE
    IF ~verify_commitment_addition(current_receiver_commitment, amount_commitment,
                                   new_receiver_commitment)
    THEN Raise(s1, "Receiver commitment mismatch") ELSE
    IF ~verify_commitment_subtraction(current_allowance_commitment, new_allowance_commitment,
                                      amount_commitment)
    THEN Raise(s1, "Allowance commitment mismatch") ELSE
    LET b1 == Put(old, owner, [commitment |-> new_owner_commitment,
                               last_updated |-> block_num,
                               updates |-> old[owner].updates + 1])
        b2 == Put(b1, to, BalanceRecord(new_receiver_commitment, old, to))
        a1 == Put(s1.approvals, <<caller, owner>>,
                  [commitment |-> new_allowance_commitment,
                   approved_at |-> approval.approved_at])
    IN Emit([s1 EXCEPT !.balance_commitments = b2, !.approvals = a1], "ConfidentialTransfer")

\* variant: the approval is stamped with the height of its use
confidential_transfer_from_restamps(caller, owner, to, amount_commitment, new_owner_commitment, new_receiver_commitment, new_allowance_commitment, nonce) ==
    IF to = owner THEN Raise(Stores, "Use confidential_transfer for self to self") ELSE
    LET s1 == bump_nonce(Stores, caller, nonce) IN
    IF s1.err # OK THEN s1 ELSE
    LET old == s1.balance_commitments IN
    IF owner \notin DOMAIN old THEN Raise(s1, "Owner has no commitment") ELSE
    LET current_owner_commitment == old[owner].commitment
        current_receiver_commitment == CommitmentOr(old, to)
    IN
    IF <<owner, caller>> \notin DOMAIN s1.approvals THEN Raise(s1, "No approval for spender") ELSE
    LET approval == s1.approvals[<<owner, caller>>]
        current_allowance_commitment == approval.commitment
    IN
    IF ~verify_commitment_subtraction(current_owner_commitment, new_owner_commitment,
                                      amount_commitment)
    THEN Raise(s1, "Owner commitment mismatch") ELSE
    IF ~verify_commitment_addition(current_receiver_commitment, amount_commitment,
                                   new_receiver_commitment)
    THEN Raise(s1, "Receiver commitment mismatch") ELSE
    IF ~verify_commitment_subtraction(current_allowance_commitment, new_allowance_commitment,
                                      amount_commitment)
    THEN Raise(s1, "Allowance commitment mismatch") ELSE
    LET b1 == Put(old, owner, [commitment |-> new_owner_commitment,
                               last_updated |-> block_num,
                               updates |-> old[owner].updates + 1])
        b2 == Put(b1, to, BalanceRecord(new_receiver_commitment, old, to))
        a1 == Put(s1.approvals, <<owner, caller>>,
                  [commitment |-> new_allowance_commitment,
                   approved_at |-> block_num])
    IN Emit([s1 EXCEPT !.balance_commitments = b2, !.approvals = a1], "ConfidentialTransfer")

confidential_transfer_from(caller, owner, to, amount_commitment, new_owner_commitment, new_receiver_commitment, new_allowance_commitment, nonce) ==
    IF to = owner THEN Raise(Stores, "Use confidential_transfer for self to self") ELSE
    LET s1 == bump_nonce(Stores, caller, nonce) IN
    IF s1.err # OK THEN s1 ELSE
    LET old == s1.balance_commitments IN
    IF owner \notin DOMAIN old THEN Raise(s1, "Owner has no commitment") ELSE
    LET current_owner_commitment == old[owner].commitment
        current_receiver_commitment == CommitmentOr(old, to)
    IN
    IF <<owner, caller>> \notin DOMAIN s1.approvals THEN Raise(s1, "No approval for spender") ELSE
    LET approval == s1.approvals[<<owner, caller>>]
        current_allowance_commitment == approval.commitment
    IN
    IF ~verify_commitment_subtraction(current_owner_commitment, new_owner_commitment,
                                      amount_commitment)
    THEN Raise(s1, "Owner commitment mismatch") ELSE
    IF ~verify_commitment_addition(current_receiver_commitment, amount_commitment,
                                   new_receiver_commitment)
    THEN Raise(s1, "Receiver commitment mismatch") ELSE
    IF ~verify_commitment_subtraction(current_allowance_commitment, new_allowance_commitment,
                                      amount_commitment)
    THEN Raise(s1, "Allowance commitment mismatch") ELSE
    LET b1 == Put(old, owner, [commitment |-> new_owner_commitment,
                               last_updated |-> block_num,
                               updates |-> old[owner].updates + 1])
        b2 == Put(b1, to, BalanceRecord(new_receiver_commitment, old, to))
        a1 == Put(s1.approvals, <<owner, caller>>,
                  [commitment |-> new_allowance_commitment,
                   approved_at |-> approval.approved_at])
    IN Emit([s1 EXCEPT !.balance_commitments = b2, !.approvals = a1], "ConfidentialTransfer")

\* ---------------------------------------------------------------------------
\* Mint / Burn
\* ---------------------------------------------------------------------------
\* variant: the operator check is missing
mint_any_caller(caller, to, amount, amount_commitment, new_receiver_commitment, nonce) ==
    LET s1 == bump_nonce(Stores, caller, nonce) IN
    IF s1.err # OK THEN s1 ELSE
    LET old == s1.balance_commitments
        current_receiver_commitment == CommitmentOr(old, to)
    IN
    IF ~verify_commitment_addition(current_receiver_commitment, amount_commitment,
                                   new_receiver_commitment)
    THEN Raise(s1, "Receiver commitment mismatch") ELSE
    LET b1 == Put(old, to, BalanceRecord(new_receiver_commitment, old, to))
        supply_cmt == OrDefault(s1.metadata.supply_commitment, ZERO_COMMITMENT)
        m1 == [s1.metadata EXCEPT
                 !.total_supply = OrDefault(s1.metadata.total_supply, 0) + amount,
                 !.supply_commitment = (supply_cmt * amount_commitment) % p]
    IN Emit([s1 EXCEPT !.balance_commitments = b1, !.metadata = m1], "MintCommitment")

\* variant: the receiver's record is written as a first write
mint_resets_updates(caller, to, amount, amount_commitment, new_receiver_commitment, nonce) ==
    IF caller # metadata.operator THEN Raise(Stores, "Only operator can mint") ELSE
    LET s1 == bump_nonce(Stores, caller, nonce) IN
    IF s1.err # OK THEN s1 ELSE
    LET old == s1.balance_commitments
        current_receiver_commitment == CommitmentOr(old, to)
    IN
    IF ~verify_commitment_addition(current_receiver_commitment, amount_commitment,
                                   new_receiver_commitment)
    THEN Raise(s1, "Receiver commitment mismatch") ELSE
    LET b1 == Put(old, to, [commitment |-> new_receiver_commitment,
                            last_updated |-> block_num, updates |-> 1])
        supply_cmt == OrDefault(s1.metadata.supply_commitment, ZERO_COMMITMENT)
        m1 == [s1.metadata EXCEPT
                 !.total_supply = OrDefault(s1.metadata.total_supply, 0) + amount,
                 !.supply_commitment = (supply_cmt * amount_commitment) % p]
    IN Emit([s1 EXCEPT !.balance_commitments = b1, !.metadata = m1], "MintCommitment")

mint(caller, to, amount, amount_commitment, new_receiver_commitment, nonce) ==
    IF caller # metadata.operator THEN Raise(Stores, "Only operator can mint") ELSE
    LET s1 == bump_nonce(Stores, caller, nonce) IN
    IF s1.err # OK THEN s1 ELSE
    LET old == s1.balance_commitments
        current_receiver_commitment == CommitmentOr(old, to)
    IN
    IF ~verify_commitment_addition(current_receiver_commitment, amount_commitment,
                                   new_receiver_commitment)
    THEN Raise(s1, "Receiver commitment mismatch") ELSE
    LET b1 == Put(old, to, BalanceRecord(new_receiver_commitment, old, to))
        supply_cmt == OrDefault(s1.metadata.supply_commitment, ZERO_COMMITMENT)
        m1 == [s1.metadata EXCEPT
                 !.total_supply = OrDefault(s1.metadata.total_supply, 0) + amount,
                 !.supply_commitment = (supply_cmt * amount_commitment) % p]
    IN Emit([s1 EXCEPT !.balance_commitments = b1, !.metadata = m1], "MintCommitment")

\* the writes of burn (holder record, public supply, supply commitment, tx id)
burn_write(s1, from_address, amount, amount_commitment, new_from_commitment) ==
    LET old == s1.balance_commitments
        b1 == Put(old, from_address, BalanceRecord(new_from_commitment, old, from_address))
        supply_cmt == OrDefault(s1.metadata.supply_commitment, ZERO_COMMITMENT)
        inv == mod_inverse(amount_commitment % p, p)
        m1 == [s1.metadata EXCEPT
                 !.total_supply = OrDefault(s1.metadata.total_supply, 0) - amount,
                 !.supply_commitment = (supply_cmt * inv) % p]
    IN Emit([s1 EXCEPT !.balance_commitments = b1, !.metadata = m1], "BurnCommitment")

\* variant: a holder without a record is burnt from as from ZERO_COMMITMENT
burn_without_record(caller, from_address, amount, amount_commitment, new_from_commitment, nonce) ==
    IF ~(caller = from_address \/ caller = metadata.operator)
    THEN Raise(Stores, "Not authorized to burn") ELSE
    LET s1 == bump_nonce(Stores, caller, nonce) IN
    IF s1.err # OK THEN s1 ELSE
    IF ~verify_commitment_subtraction(CommitmentOr(s1.balance_commitments, from_address),
                                      new_from_commitment, amount_commitment)
    THEN Raise(s1, "From commitment mismatch") ELSE
    burn_write(s1, from_address, amount, amount_commitment, new_from_commitment)

\* variant: the nonce consumed is the holder's
burn_bumps_holder(caller, from_address, amount, amount_commitment, new_from_commitment, nonce) ==
    IF ~(caller = from_address \/ caller = metadata.operator)
    THEN Raise(Stores, "Not authorized to burn") ELSE
    LET s1 == bump_nonce(Stores, from_address, nonce) IN
    IF s1.err # OK THEN s1 ELSE
    IF from_address \notin DOMAIN s1.balance_commitments
    THEN Raise(s1, "No commitment to burn from") ELSE
    IF ~verify_commitment_subtraction(s1.balance_commitments[from_address].commitment,
                                      new_from_commitment, amount_commitment)
    THEN Raise(s1, "From commitment mismatch") ELSE
    burn_write(s1, from_address, amount, amount_commitment, new_from_commitment)

\* variant: the holder's record is looked up before the nonce is checked
burn_record_first(caller, from_address, amount, amount_commitment, new_from_commitment, nonce) ==
    IF ~(caller = from_address \/ caller = metadata.operator)
    THEN Raise(Stores, "Not authorized to burn") ELSE
    IF from_address \notin DOMAIN balance_commitments
    THEN Raise(Stores, "No commitment to burn from") ELSE
    LET s1 == bump_nonce(Stores, caller, nonce) IN
    IF s1.err # OK THEN s1 ELSE
    IF ~verify_commitment_subtraction(s1.balance_commitments[from_address].commitment,
                                      new_from_commitment, amount_commitment)
    THEN Raise(s1, "From commitment mismatch") ELSE
    burn_write(s1, from_address, amount, amount_commitment, new_from_commitment)

burn(caller, from_address, amount, amount_commitment, new_from_commitment, nonce) ==
    IF ~(caller = from_address \/ caller = metadata.operator)
    THEN Raise(Stores, "Not authorized to burn") ELSE
    LET s1 == bump_nonce(Stores, caller, nonce) IN
    IF s1.err # OK THEN s1 ELSE
    LET old == s1.balance_commitments IN
    IF from_address \notin DOMAIN old THEN Raise(s1, "No commitment to burn from") ELSE
    LET current_from_commitment == old[from_address].commitment IN
    IF ~verify_commitment_subtraction(current_from_commitment, new_from_commitment,
                                      amount_commitment)
    THEN Raise(s1, "From commitment mismatch") ELSE
    LET b1 == Put(old, from_address, [commitment |-> new_from_commitment,
                                      last_updated |-> block_num,
                                      updates |-> old[from_address].updates + 1])
        supply_cmt == OrDefault(s1.metadata.supply_commitment, ZERO_COMMITMENT)
        inv == mod_inverse(amount_commitment % p, p)
        m1 == [s1.metadata EXCEPT
                 !.total_supply = OrDefault(s1.metadata.total_supply, 0) - amount,
                 !.supply_commitment = (supply_cmt * inv) % p]
    IN Emit([s1 EXCEPT !.balance_commitments = b1, !.metadata = m1], "BurnCommitment")

\* ---------------------------------------------------------------------------
\* Metadata
\* ---------------------------------------------------------------------------
MetaKeys == {"operator", "total_supply", "supply_commitment"}
\* values presented to change_metadata (value: Any)
MetaValues(key) == IF key = "operator" THEN Addr ELSE 0..MaxAmount

change_metadata(caller, key, value) ==
    IF caller # metadata.operator THEN Raise(Stores, "Only operator can set metadata") ELSE
    [Stores EXCEPT !.metadata = [metadata EXCEPT ![key] = value]]

\* ---------------------------------------------------------------------------
\* Host: one call is one transaction
\* ---------------------------------------------------------------------------
\* The executor commits the working copy of a call that returned and discards
\* the working copy of a call that raised, whose message it reports.  Each
\* committed transaction is executed at its own height.
\* variant: the pending writes of a call that raised are kept
Settle_keep_writes(op, caller, r) ==
    /\ balance_commitments' = r.balance_commitments
    /\ approvals' = r.approvals
    /\ nonces' = r.nonces
    /\ metadata' = r.metadata
    /\ next_tx_id' = r.next_tx_id
    /\ calc' = calc
    /\ events' = events \o r.events
    /\ IF r.err = OK
       THEN /\ block_num' = block_num + 1
            /\ result' = Returned
            /\ last_call' = [op |-> op, caller |-> caller]
       ELSE /\ UNCHANGED <<block_num, last_call>>
            /\ result' = [op |-> op, caller |-> caller, err |-> r.err]

Settle(op, caller, r) ==
    /\ calc' = calc
    /\ IF r.err = OK
       THEN /\ balance_commitments' = r.balance_commitments
            /\ approvals' = r.approvals
            /\ nonces' = r.nonces
            /\ metadata' = r.metadata
            /\ next_tx_id' = r.next_tx_id
            /\ events' = events \o r.events
            /\ block_num' = block_num + 1
            /\ result' = Returned
            /\ last_call' = [op |-> op, caller |-> caller]
       ELSE /\ UNCHANGED <<ledger, block_num, last_call, events>>
            /\ result' = [op |-> op, caller |-> caller, err |-> r.err]

\* The client takes note of the AssertionError of a rejected call.
Acknowledge ==
    /\ result # Returned
    /\ result' = Returned
    /\ UNCHANGED <<ledger, block_num, last_call, calc, events>>

\* a call can be submitted: the previous one is settled, the explored budget is not used up
CanCall(budget) == result = Returned /\ block_num <= budget

\* The asserts that precede the first algebraic check of a handler.
PrologueErrors ==
    {"Cannot transfer to self", "Use confidential_transfer for self to self", "Bad nonce",
     "Owner has no commitment", "No approval for spender", "Only operator can mint",
     "Not authorized to burn", "No commitment to burn from"}

\* Values enumerated for an argument that the handler first reads after the
\* asserts `before`: `pre` is the call with ZERO_COMMITMENT in its place.  A
\* call rejected by one of `before` never reads the argument, so one value
\* stands for all.
Unread(pre, before) == IF pre.err \in before THEN {ZERO_COMMITMENT} ELSE Ints

\* amount_commitment and new_sender_commitment, then new_receiver_commitment
TransferArgs(caller, to, nonce) ==
    Unread(confidential_transfer(caller, to, 1, 1, 1, nonce), PrologueErrors)
TransferArgsNr(caller, to, a, ns, nonce) ==
    Unread(confidential_transfer(caller, to, a, ns, 1, nonce),
           PrologueErrors \cup {"Sender commitment mismatch"})

Transfer ==
    /\ CanCall(MaxTx)
    /\ \E caller \in Addr, to \in Addr, nonce \in Nonces :
         \E a \in TransferArgs(caller, to, nonce), ns \in TransferArgs(caller, to, nonce) :
         \E nr \in TransferArgsNr(caller, to, a, ns, nonce) :
            Settle("confidential_transfer", caller,
                   confidential_transfer(caller, to, a, ns, nr, nonce))

ApproveArgs(caller, spender, nonce) ==
    Unread(confidential_approve(caller, spender, 1, nonce), PrologueErrors)

Approve ==
    /\ CanCall(MaxTx)
    /\ \E caller \in Addr, spender \in Addr, nonce \in Nonces :
         \E c \in ApproveArgs(caller, spender, nonce) :
            Settle("confidential_approve", caller,
                   confidential_approve(caller, spender, c, nonce))

\* amount_commitment and new_owner_commitment, then new_receiver_commitment,
\* then new_allowance_commitment
TransferFromArgs(caller, owner, to, nonce) ==
    Unread(confidential_transfer_from(caller, owner, to, 1, 1, 1, 1, nonce), PrologueErrors)
TransferFromArgsNr(caller, owner, to, a, no, nonce) ==
    Unread(confidential_transfer_from(caller, owner, to, a, no, 1, 1, nonce),
           PrologueErrors \cup {"Owner commitment mismatch"})
TransferFromArgsNa(caller, owner, to, a, no, nr, nonce) ==
    Unread(confidential_transfer_from(caller, owner, to, a, no, nr, 1, nonce),
           PrologueErrors \cup {"Owner commitment mismatch", "Receiver commitment mismatch"})

TransferFromUpTo(budget) ==
    /\ CanCall(budget)
    /\ \E caller \in Addr, owner \in Addr, to \in Addr, nonce \in Nonces :
         \E a \in TransferFromArgs(caller, owner, to, nonce),
            no \in TransferFromArgs(caller, owner, to, nonce) :
         \E nr \in TransferFromArgsNr(caller, owner, to, a, no, nonce) :
         \E na \in TransferFromArgsNa(caller, owner, to, a, no, nr, nonce) :
            Settle("confidential_transfer_from", caller,
                   confidential_transfer_from(caller, owner, to, a, no, nr, na, nonce))

TransferFrom == TransferFromUpTo(MaxTx + 1)

MintArgs(caller, to, amount, nonce) ==
    Unread(mint(caller, to, amount, 1, 1, nonce), PrologueErrors)

Mint ==
    /\ CanCall(MaxTx)
    /\ \E caller \in Addr, to \in Addr, amount \in Amounts, nonce \in Nonces :
         \E a \in MintArgs(caller, to, amount, nonce), nr \in MintArgs(caller, to, amount, nonce) :
            Settle("mint", caller, mint(caller, to, amount, a, nr, nonce))

BurnArgs(caller, from_address, amount, nonce) ==
    Unread(burn(caller, from_address, amount, 1, 1, nonce), PrologueErrors)

Burn ==
    /\ CanCall(MaxTx)
    /\ \E caller \in Addr, from_address \in Addr, amount \in Amounts, nonce \in Nonces :
         \E a \in BurnArgs(caller, from_address, amount, nonce),
            nf \in BurnArgs(caller, from_address, amount, nonce) :
            Settle("burn", caller, burn(caller, from_address, amount, a, nf, nonce))

ChangeMetadata ==
    /\ CanCall(MaxTx)
    /\ \E caller \in Addr, key \in MetaKeys :
         \E value \in MetaValues(key) :
            Settle("change_metadata", caller, change_metadata(caller, key, value))

\* The ledger protocol: the five mutating operations.
Next ==
    \/ Transfer
    \/ Approve
    \/ TransferFrom
    \/ Mint
    \/ Burn
    \/ Acknowledge

Spec == Init /\ [][Next]_vars

\* The ledger with its administrative entry point.
NextAdmin ==
    \/ ChangeMetadata
    \/ Transfer
    \/ Approve
    \/ TransferFromUpTo(MaxTx)
    \/ Mint
    \/ Burn
    \/ Acknowledge

SpecAdmin == Init /\ [][NextAdmin]_vars

\* ---------------------------------------------------------------------------
\* The calls of a state: every call the actions above submit in it (none in a
\* state whose budget is used up or whose last call is not yet acknowledged)
\* ---------------------------------------------------------------------------
AllTransferCalls(P(_, _, _, _, _, _)) ==
    CanCall(MaxTx) =>
    \A caller \in Addr, to \in Addr, nonce \in Nonces :
    \A a \in TransferArgs(caller, to, nonce), ns \in TransferArgs(caller, to, nonce) :
    \A nr \in TransferArgsNr(caller, to, a, ns, nonce) :
        P(caller, to, a, ns, nr, nonce)

AllApproveCalls(P(_, _, _, _)) ==
    CanCall(MaxTx) =>
    \A caller \in Addr, spender \in Addr, nonce \in Nonces :
    \A c \in ApproveArgs(caller, spender, nonce) :
        P(caller, spender, c, nonce)

AllTransferFromCalls(P(_, _, _, _, _, _, _, _)) ==
    CanCall(MaxTx + 1) =>
    \A caller \in Addr, owner \in Addr, to \in Addr, nonce \in Nonces :
    \A a \in TransferFromArgs(caller, owner, to, nonce),
       no \in TransferFromArgs(caller, owner, to, nonce) :
    \A nr \in TransferFromArgsNr(caller, owner, to, a, no, nonce) :
    \A na \in TransferFromArgsNa(caller, owner, to, a, no, nr, nonce) :
        P(caller, owner, to, a, no, nr, na, nonce)

AllMintCalls(P(_, _, _, _, _, _)) ==
    CanCall(MaxTx) =>
    \A caller \in Addr, to \in Addr, amount \in Amounts, nonce \in Nonces :
    \A a \in MintArgs(caller, to, amount, nonce), nr \in MintArgs(caller, to, amount, nonce) :
        P(caller, to, amount, a, nr, nonce)

AllBurnCalls(P(_, _, _, _, _, _)) ==
    CanCall(MaxTx) =>
    \A caller \in Addr, from_address \in Addr, amount \in Amounts, nonce \in Nonces :
    \A a \in BurnArgs(caller, from_address, amount, nonce),
       nf \in BurnArgs(caller, from_address, amount, nonce) :
        P(caller, from_address, amount, a, nf, nonce)

Accepted(r) == r.err = OK

\* ---------------------------------------------------------------------------
\* Transition planner (client_helper.py)
\* ---------------------------------------------------------------------------
\* generators: map_to_base derives a base in [2, p-2] from a digest
g == 2
h == 3

\* blinding factors presented to the planner; the last one wraps modulo p - 1
Blindings == 0..(p - 1)

\* the amount's sha3 digest modulo p - 1; the digest is stood for by the amount
value_to_exponent(value) == value % (p - 1)

create_commitment(value, blinding) ==
    LET vexp == value_to_exponent(value)
    IN (mod_exp(g, vexp, p) * mod_exp(h, blinding % (p - 1), p)) % p

\* mod_inverse of the helper: the modulus defaults to p and x is reduced first
helper_mod_inverse(x) == mod_exp(x % p, p - 2, p)

\* `c is None or c == 0`: None is represented by 0, which every builder
\* treats in the same way
Missing(c) == c = 0

\* raise ValueError(msg)
ValueError(msg) == [err |-> msg]

build_confidential_transfer(sender_commitment, receiver_commitment, amount, amount_blinding, next_nonce) ==
    LET amount_commitment == create_commitment(amount, amount_blinding)
        sender == IF Missing(sender_commitment) THEN ZERO_COMMITMENT ELSE sender_commitment
        receiver == IF Missing(receiver_commitment) THEN ZERO_COMMITMENT
                    ELSE receiver_commitment
        inv_amt == helper_mod_inverse(amount_commitment)
    IN [err |-> OK,
        amount_commitment |-> amount_commitment,
        new_sender_commitment |-> (sender * inv_amt) % p,
        new_receiver_commitment |-> (receiver * amount_commitment) % p,
        nonce |-> next_nonce]

\* variant: the allowance is multiplied by the amount commitment, not by its inverse
build_confidential_transfer_from_credit(owner_commitment, receiver_commitment, allowance_commitment, amount, amount_blinding, next_nonce) ==
    LET amount_commitment == create_commitment(amount, amount_blinding) IN
    IF Missing(owner_commitment) THEN ValueError("Owner must have an existing commitment") ELSE
    LET receiver == IF Missing(receiver_commitment) THEN ZERO_COMMITMENT
                    ELSE receiver_commitment
    IN
    IF Missing(allowance_commitment)
    THEN ValueError("Spender must have an existing allowance commitment") ELSE
    LET inv_amt == helper_mod_inverse(amount_commitment)
    IN [err |-> OK,
        amount_commitment |-> amount_commitment,
        new_owner_commitment |-> (owner_commitment * inv_amt) % p,
        new_receiver_commitment |-> (receiver * amount_commitment) % p,
        new_allowance_commitment |-> (allowance_commitment * amount_commitment) % p,
        nonce |-> next_nonce]

build_confidential_transfer_from(owner_commitment, receiver_commitment, allowance_commitment, amount, amount_blinding, next_nonce) ==
    LET amount_commitment == create_commitment(amount, amount_blinding) IN
    IF Missing(owner_commitment) THEN ValueError("Owner must have an existing commitment") ELSE
    LET receiver == IF Missing(receiver_commitment) THEN ZERO_COMMITMENT
                    ELSE receiver_commitment
    IN
    IF Missing(allowance_commitment)
    THEN ValueError("Spender must have an existing allowance commitment") ELSE
    LET inv_amt == helper_mod_inverse(amount_commitment)
    IN [err |-> OK,
        amount_commitment |-> amount_commitment,
        new_owner_commitment |-> (owner_commitment * inv_amt) % p,
        new_receiver_commitment |-> (receiver * amount_commitment) % p,
        new_allowance_commitment |-> (allowance_commitment * inv_amt) % p,
        nonce |-> next_nonce]

build_mint(receiver_commitment, amount, amount_blinding, next_nonce) ==
    LET amount_commitment == create_commitment(amount, amount_blinding)
        receiver == IF Missing(receiver_commitment) THEN ZERO_COMMITMENT
                    ELSE receiver_commitment
    IN [err |-> OK,
        amount |-> amount,
        amount_commitment |-> amount_commitment,
        new_receiver_commitment |-> (receiver * amount_commitment) % p,
        nonce |-> next_nonce]

\* variant: a missing commitment is planned as ZERO_COMMITMENT
build_burn_unchecked(from_commitment, amount, amount_blinding, next_nonce) ==
    LET amount_commitment == create_commitment(amount, amount_blinding)
        inv_amt == helper_mod_inverse(amount_commitment)
        from == IF Missing(from_commitment) THEN ZERO_COMMITMENT ELSE from_commitment
    IN [err |-> OK,
        amount |-> amount,
        amount_commitment |-> amount_commitment,
        new_from_commitment |-> (from * inv_amt) % p,
        nonce |-> next_nonce]

build_burn(from_commitment, amount, amount_blinding, next_nonce) ==
    IF Missing(from_commitment) THEN ValueError("Account must have an existing commitment") ELSE
    LET amount_commitment == create_commitment(amount, amount_blinding)
        inv_amt == helper_mod_inverse(amount_commitment)
    IN [err |-> OK,
        amount |-> amount,
        amount_commitment |-> amount_commitment,
        new_from_commitment |-> (from_commitment * inv_amt) % p,
        nonce |-> next_nonce]

\* a record's commitment overwritten in the store, not through an operation
tamper(address, commitment) ==
    Put(balance_commitments, address,
        [balance_commitments[address] EXCEPT !.commitment = commitment])

\* ---------------------------------------------------------------------------
\* The helper functions on their own: the arguments are drawn in the initial
\* state, one step applies one function to them
\* ---------------------------------------------------------------------------
HelperArgs ==
    [c1 : Ints, c2 : Ints, c3 : Ints, amount : Amounts, blinding : Blindings, nonce : Nonces]

InitHelpers ==
    /\ seed
    /\ block_num = 1
    /\ result = Returned
    /\ last_call = [op |-> "seed", caller |-> Deployer]
    /\ events = << >>
    /\ \E args \in HelperArgs : calc = [fn |-> "none", args |-> args, out |-> << >>]

\* the function fn returns out
Apply(fn, out) ==
    /\ calc.fn = "none"
    /\ calc' = [calc EXCEPT !.fn = fn, !.out = out]
    /\ UNCHANGED <<ledger, block_num, result, last_call, events>>

VerifyAddition ==
    Apply("verify_commitment_addition",
          verify_commitment_addition(calc.args.c1, calc.args.c2, calc.args.c3))

VerifySubtraction ==
    Apply("verify_commitment_subtraction",
          verify_commitment_subtraction(calc.args.c1, calc.args.c2, calc.args.c3))

\* a modulus is positive
ModExp ==
    /\ calc.args.c3 >= 1
    /\ Apply("mod_exp", mod_exp(calc.args.c1, calc.args.c2, calc.args.c3))

ModInverse == Apply("mod_inverse", mod_inverse(calc.args.c1, p))

HelperModInverse == Apply("helper_mod_inverse", helper_mod_inverse(calc.args.c1))

CreateCommitment ==
    Apply("create_commitment", create_commitment(calc.args.amount, calc.args.blinding))

BuildTransfer ==
    Apply("build_confidential_transfer",
          build_confidential_transfer(calc.args.c1, calc.args.c2, calc.args.amount,
                                      calc.args.blinding, calc.args.nonce))

BuildTransferFrom ==
    Apply("build_confidential_transfer_from",
          build_confidential_transfer_from(calc.args.c1, calc.args.c2, calc.args.c3,
                                           calc.args.amount, calc.args.blinding,
                                           calc.args.nonce))

BuildMint ==
    Apply("build_mint",
          build_mint(calc.args.c1, calc.args.amount, calc.args.blinding, calc.args.nonce))

BuildBurn ==
    Apply("build_burn",
          build_burn(calc.args.c1, calc.args.amount, calc.args.blinding, calc.args.nonce))

NextHelpers ==
    \/ VerifyAddition
    \/ VerifySubtraction
    \/ ModExp
    \/ ModInverse
    \/ HelperModInverse
    \/ CreateCommitment
    \/ BuildTransfer
    \/ BuildTransferFrom
    \/ BuildMint
    \/ BuildBurn

SpecHelpers == InitHelpers /\ [][NextHelpers]_vars

\* ---------------------------------------------------------------------------
\* Claims
\* ---------------------------------------------------------------------------

\* C1: after any sequence of accepted mint, burn, transfer, approve and
\* transfer-from calls the product modulo p of all stored balance commitments
\* equals the stored supply_commitment (verify_supply_invariant().ok).
C1_SupplyConservation == verify_supply_invariant.ok

\* C2: a rejected call leaves every balance record, approval record, nonce,
\* total_supply, supply_commitment and the tx counter as they were.
C2_AtomicRejection == [][result'.err # OK => UNCHANGED ledger]_vars

\* the messages of the algebraic checks
AlgebraErrors ==
    {"Sender commitment mismatch", "Receiver commitment mismatch", "Owner commitment mismatch",
     "Allowance commitment mismatch", "From commitment mismatch"}

\* a call was rejected by an algebraic check, i.e. after bump_nonce had written
C2_Witness == result.err \in AlgebraErrors /\ block_num > 1

\* C3: a call presenting a nonce other than stored + 1 is rejected, and an
\* accepted call stores exactly stored + 1 for its caller.
NonceRule(caller, nonce, r) ==
    /\ nonce # get_nonce(caller) + 1 => ~Accepted(r)
    /\ Accepted(r) => /\ caller \in DOMAIN r.nonces
                      /\ r.nonces[caller] = get_nonce(caller) + 1

C3_NonceReplay ==
    /\ AllTransferCalls(LAMBDA caller, to, a, ns, nr, nonce :
           NonceRule(caller, nonce, confidential_transfer(caller, to, a, ns, nr, nonce)))
    /\ AllApproveCalls(LAMBDA caller, spender, c, nonce :
           NonceRule(caller, nonce, confidential_approve(caller, spender, c, nonce)))
    /\ AllTransferFromCalls(LAMBDA caller, owner, to, a, no, nr, na, nonce :
           NonceRule(caller, nonce,
                     confidential_transfer_from(caller, owner, to, a, no, nr, na, nonce)))
    /\ AllMintCalls(LAMBDA caller, to, amount, a, nr, nonce :
           NonceRule(caller, nonce, mint(caller, to, amount, a, nr, nonce)))
    /\ AllBurnCalls(LAMBDA caller, from_address, amount, a, nf, nonce :
           NonceRule(caller, nonce, burn(caller, from_address, amount, a, nf, nonce)))

\* the replay of the nonce of the last committed call was rejected
C3_Witness ==
    /\ result.err = "Bad nonce"
    /\ result.op = last_call.op
    /\ result.caller = last_call.caller
    /\ \E spender \in Addr :
         confidential_approve(last_call.caller, spender, 2, get_nonce(last_call.caller)).err
            = "Bad nonce"

\* C4: a call is accepted only if every commitment relation of its operation
\* holds against the stored commitments (an absent record counting as 1).
Current(address) == get_balance_commitment(address).commitment

C4_AlgebraicAcceptance ==
    /\ AllTransferCalls(LAMBDA caller, to, a, ns, nr, nonce :
           Accepted(confidential_transfer(caller, to, a, ns, nr, nonce))
           => /\ Current(caller) = (ns * a) % p
              /\ nr = (Current(to) * a) % p)
    /\ AllTransferFromCalls(LAMBDA caller, owner, to, a, no, nr, na, nonce :
           Accepted(confidential_transfer_from(caller, owner, to, a, no, nr, na, nonce))
           => /\ Current(owner) = (no * a) % p
              /\ nr = (Current(to) * a) % p
              /\ get_confidential_approval(owner, caller).commitment = (na * a) % p)
    /\ AllMintCalls(LAMBDA caller, to, amount, a, nr, nonce :
           Accepted(mint(caller, to, amount, a, nr, nonce))
           => nr = (Current(to) * a) % p)
    /\ AllBurnCalls(LAMBDA caller, from_address, amount, a, nf, nonce :
           Accepted(burn(caller, from_address, amount, a, nf, nonce))
           => Current(from_address) = (nf * a) % p)

\* a delegated transfer whose owner and receiver relations held was rejected
\* for its allowance relation alone
C4_Witness == result.err = "Allowance commitment mismatch"

\* C5: mint is accepted only from the current operator; burn only from
\* from_address or the current operator; any other caller gets the
\* authorization error, whatever the nonce and the commitments.
C5_MintBurnAuthorization ==
    /\ AllMintCalls(LAMBDA caller, to, amount, a, nr, nonce :
           LET r == mint(caller, to, amount, a, nr, nonce)
           IN /\ Accepted(r) => caller = metadata.operator
              /\ caller # metadata.operator => r.err = "Only operator can mint")
    /\ AllBurnCalls(LAMBDA caller, from_address, amount, a, nf, nonce :
           LET r == burn(caller, from_address, amount, a, nf, nonce)
           IN /\ Accepted(r) => (caller = from_address \/ caller = metadata.operator)
              /\ ~(caller = from_address \/ caller = metadata.operator)
                 => r.err = "Not authorized to burn")

\* the deployer, no longer the operator, was refused a mint
C5_Witness ==
    /\ result = [op |-> "mint", caller |-> Deployer, err |-> "Only operator can mint"]
    /\ metadata.operator # Deployer
    /\ last_call.op = "change_metadata"

\* C6: a delegated transfer is accepted only if the owner has a balance record
\* and the (owner, caller) approval exists; burn only if from_address has a
\* balance record.
C6_DelegatedPreconditions ==
    /\ AllTransferFromCalls(LAMBDA caller, owner, to, a, no, nr, na, nonce :
           Accepted(confidential_transfer_from(caller, owner, to, a, no, nr, na, nonce))
           => /\ get_balance_commitment(owner).exists
              /\ get_confidential_approval(owner, caller).exists)
    /\ AllBurnCalls(LAMBDA caller, from_address, amount, a, nf, nonce :
           Accepted(burn(caller, from_address, amount, a, nf, nonce))
           => get_balance_commitment(from_address).exists)

\* a delegated transfer from an owner with a record was refused for want of an approval
C6_Witness == result.err = "No approval for spender"

\* C7: an accepted call advances the nonce of its caller and of no other
\* address: the nonce store after it is the one before it with the caller's
\* entry set to stored + 1.
OnlyCallerNonce(caller, r) ==
    Accepted(r) => r.nonces = Put(nonces, caller, get_nonce(caller) + 1)

C7_NonceKeyedByCaller ==
    /\ AllTransferCalls(LAMBDA caller, to, a, ns, nr, nonce :
           OnlyCallerNonce(caller, confidential_transfer(caller, to, a, ns, nr, nonce)))
    /\ AllApproveCalls(LAMBDA caller, spender, c, nonce :
           OnlyCallerNonce(caller, confidential_approve(caller, spender, c, nonce)))
    /\ AllTransferFromCalls(LAMBDA caller, owner, to, a, no, nr, na, nonce :
           OnlyCallerNonce(caller,
                           confidential_transfer_from(caller, owner, to, a, no, nr, na, nonce)))
    /\ AllMintCalls(LAMBDA caller, to, amount, a, nr, nonce :
           OnlyCallerNonce(caller, mint(caller, to, amount, a, nr, nonce)))
    /\ AllBurnCalls(LAMBDA caller, from_address, amount, a, nf, nonce :
           OnlyCallerNonce(caller, burn(caller, from_address, amount, a, nf, nonce)))

\* a spender's first call was a delegated transfer from an owner who had used
\* nonce 1 for the approval: both stand at 1
C7_Witness ==
    /\ last_call.op = "confidential_transfer_from"
    /\ get_nonce(last_call.caller) = 1
    /\ \E owner \in Addr \ {last_call.caller} :
         /\ get_confidential_approval(owner, last_call.caller).exists
         /\ get_nonce(owner) = 1

\* C8: every stored commitment is an integer in [0, p).
InField(c) == c \in 0..(p - 1)

C8_FieldRange ==
    /\ \A address \in DOMAIN balance_commitments :
         InField(balance_commitments[address].commitment)
    /\ \A pair \in DOMAIN approvals : InField(approvals[pair].commitment)
    /\ InField(metadata.supply_commitment)

\* C9 as stated: a call presenting a bad nonce is rejected with 'Bad nonce',
\* whatever other defect it has.
BadNonce(caller, nonce) == nonce # get_nonce(caller) + 1

C9_NonceCheckedFirst ==
    /\ AllTransferCalls(LAMBDA caller, to, a, ns, nr, nonce :
           BadNonce(caller, nonce)
           => confidential_transfer(caller, to, a, ns, nr, nonce).err = "Bad nonce")
    /\ AllApproveCalls(LAMBDA caller, spender, c, nonce :
           BadNonce(caller, nonce)
           => confidential_approve(caller, spender, c, nonce).err = "Bad nonce")
    /\ AllTransferFromCalls(LAMBDA caller, owner, to, a, no, nr, na, nonce :
           BadNonce(caller, nonce)
           => confidential_transfer_from(caller, owner, to, a, no, nr, na, nonce).err
                 = "Bad nonce")
    /\ AllMintCalls(LAMBDA caller, to, amount, a, nr, nonce :
           BadNonce(caller, nonce)
           => mint(caller, to, amount, a, nr, nonce).err = "Bad nonce")
    /\ AllBurnCalls(LAMBDA caller, from_address, amount, a, nf, nonce :
           BadNonce(caller, nonce)
           => burn(caller, from_address, amount, a, nf, nonce).err = "Bad nonce")

\* C9 amended: the self-target or authorization guard of an operation comes
\* first; a call that passes it and presents a bad nonce is rejected with
\* 'Bad nonce' whatever record is missing and whatever relation fails, and a
\* call that does not pass it is rejected with the guard's message.
AfterGuard(guard_fails, message, caller, nonce, r) ==
    /\ guard_fails => r.err = message
    /\ (~guard_fails /\ BadNonce(caller, nonce)) => r.err = "Bad nonce"

C9_NonceCheckedAfterGuard ==
    /\ AllTransferCalls(LAMBDA caller, to, a, ns, nr, nonce :
           AfterGuard(to = caller, "Cannot transfer to self", caller, nonce,
                      confidential_transfer(caller, to, a, ns, nr, nonce)))
    /\ AllApproveCalls(LAMBDA caller, spender, c, nonce :
           AfterGuard(FALSE, OK, caller, nonce,
                      confidential_approve(caller, spender, c, nonce)))
    /\ AllTransferFromCalls(LAMBDA caller, owner, to, a, no, nr, na, nonce :
           AfterGuard(to = owner, "Use confidential_transfer for self to self", caller, nonce,
                      confidential_transfer_from(caller, owner, to, a, no, nr, na, nonce)))
    /\ AllMintCalls(LAMBDA caller, to, amount, a, nr, nonce :
           AfterGuard(caller # metadata.operator, "Only operator can mint", caller, nonce,
                      mint(caller, to, amount, a, nr, nonce)))
    /\ AllBurnCalls(LAMBDA caller, from_address, amount, a, nf, nonce :
           AfterGuard(~(caller = from_address \/ caller = metadata.operator),
                      "Not authorized to burn", caller, nonce,
                      burn(caller, from_address, amount, a, nf, nonce)))

\* a burn by a holder that is not the operator (so a burn of its own
\* balance) and has no balance record was rejected with 'Bad nonce'
C9_Witness ==
    /\ result.op = "burn"
    /\ result.err = "Bad nonce"
    /\ result.caller # metadata.operator
    /\ ~get_balance_commitment(result.caller).exists

\* C10: total_supply is changed by accepted mint and burn calls only.
C10_SupplyTouchedByMintBurnOnly ==
    [][metadata'.total_supply # metadata.total_supply
       => last_call'.op \in {"mint", "burn"}]_vars

\* C11: an accepted mint sets total_supply to its previous value plus amount
\* and supply_commitment to (previous * amount_commitment) mod p; an accepted
\* burn sets total_supply to its previous value minus amount and
\* supply_commitment to (previous * mod_inverse(amount_commitment mod p)) mod p.
C11_SupplySideEffects ==
    /\ AllMintCalls(LAMBDA caller, to, amount, a, nr, nonce :
           LET r == mint(caller, to, amount, a, nr, nonce)
           IN Accepted(r)
              => /\ r.metadata.total_supply = metadata.total_supply + amount
                 /\ r.metadata.supply_commitment = (metadata.supply_commitment * a) % p)
    /\ AllBurnCalls(LAMBDA caller, from_address, amount, a, nf, nonce :
           LET r == burn(caller, from_address, amount, a, nf, nonce)
           IN Accepted(r)
              => /\ r.metadata.total_supply = metadata.total_supply - amount
                 /\ r.metadata.supply_commitment
                       = (metadata.supply_commitment * mod_inverse(a % p, p)) % p)

\* C12: after an accepted transfer, delegated transfer, mint or burn at height
\* H every balance record the operation involves holds the new commitment
\* supplied for it, last_updated = H and updates = its value before the call
\* (0 when absent) plus 1.
Written(r, address, commitment) ==
    /\ address \in DOMAIN r.balance_commitments
    /\ r.balance_commitments[address]
         = [commitment |-> commitment,
            last_updated |-> block_num,
            updates |-> get_balance_commitment(address).updates + 1]

C12_BalanceRecordWrite ==
    /\ AllTransferCalls(LAMBDA caller, to, a, ns, nr, nonce :
           LET r == confidential_transfer(caller, to, a, ns, nr, nonce)
           IN Accepted(r) => Written(r, caller, ns) /\ Written(r, to, nr))
    /\ AllTransferFromCalls(LAMBDA caller, owner, to, a, no, nr, na, nonce :
           LET r == confidential_transfer_from(caller, owner, to, a, no, nr, na, nonce)
           IN Accepted(r) => Written(r, owner, no) /\ Written(r, to, nr))
    /\ AllMintCalls(LAMBDA caller, to, amount, a, nr, nonce :
           LET r == mint(caller, to, amount, a, nr, nonce)
           IN Accepted(r) => Written(r, to, nr))
    /\ AllBurnCalls(LAMBDA caller, from_address, amount, a, nf, nonce :
           LET r == burn(caller, from_address, amount, a, nf, nonce)
           IN Accepted(r) => Written(r, from_address, nf))

\* a transfer at height 2 wrote the second update of its sender's record and
\* the first of its receiver's
C12_Witness ==
    /\ last_call.op = "confidential_transfer"
    /\ block_num = 3
    /\ get_balance_commitment(last_call.caller).updates = 2
    /\ get_balance_commitment(last_call.caller).last_updated = 2
    /\ \E to \in Addr \ {last_call.caller} :
         /\ get_balance_commitment(to).updates = 1
         /\ get_balance_commitment(to).last_updated = 2

\* C14: confidential_transfer is rejected whenever to = caller and
\* confidential_transfer_from whenever to = owner, for every nonce and all
\* commitment arguments.
C14_SelfTransferGuard ==
    /\ AllTransferCalls(LAMBDA caller, to, a, ns, nr, nonce :
           to = caller => ~Accepted(confidential_transfer(caller, to, a, ns, nr, nonce)))
    /\ AllTransferFromCalls(LAMBDA caller, owner, to, a, no, nr, na, nonce :
           to = owner
           => ~Accepted(confidential_transfer_from(caller, owner, to, a, no, nr, na, nonce)))

\* a spender holding a live approval was refused a delegated transfer from the
\* owner to the owner
C14_Witness ==
    /\ result.op = "confidential_transfer_from"
    /\ result.err = "Use confidential_transfer for self to self"
    /\ \E owner \in Addr \ {result.caller} :
         /\ get_balance_commitment(owner).exists
         /\ get_confidential_approval(owner, result.caller).exists

\* C15: a confidential_approve with the correct nonce is always accepted;
\* afterwards the (caller, spender) approval is exactly {allowance_commitment,
\* current height}, no other approval and no balance record has changed.
C15_ApproveOverwrites ==
    AllApproveCalls(LAMBDA caller, spender, c, nonce :
        LET r == confidential_approve(caller, spender, c, nonce)
        IN nonce = get_nonce(caller) + 1
           => /\ Accepted(r)
              /\ r.approvals = Put(approvals, <<caller, spender>>,
                                   [commitment |-> c, approved_at |-> block_num])
              /\ r.balance_commitments = balance_commitments)

\* the caller's two calls were approvals of the same spender (no balance
\* record exists, one approval does): the second replaced the first
C15_Witness ==
    /\ last_call.op = "confidential_approve"
    /\ get_nonce(last_call.caller) = 2
    /\ block_num = 3
    /\ balance_commitments = << >>
    /\ \E spender \in Addr :
         /\ DOMAIN approvals = {<<last_call.caller, spender>>}
         /\ approvals[<<last_call.caller, spender>>].approved_at = 2

\* the balance records an accepted call creates
Created(r) == DOMAIN r.balance_commitments \ DOMAIN balance_commitments
\* no record is deleted by the call
Kept(r) == DOMAIN balance_commitments \subseteq DOMAIN r.balance_commitments

\* C17 as stated: a balance record comes into existence only for the receiver
\* of an accepted transfer, delegated transfer or mint, never for the debited
\* side; and no operation deletes a record.
C17_RecordLifecycle ==
    /\ AllTransferCalls(LAMBDA caller, to, a, ns, nr, nonce :
           LET r == confidential_transfer(caller, to, a, ns, nr, nonce)
           IN Accepted(r) => Created(r) \subseteq {to} /\ Kept(r))
    /\ AllApproveCalls(LAMBDA caller, spender, c, nonce :
           LET r == confidential_approve(caller, spender, c, nonce)
           IN Accepted(r) => Created(r) = {} /\ Kept(r))
    /\ AllTransferFromCalls(LAMBDA caller, owner, to, a, no, nr, na, nonce :
           LET r == confidential_transfer_from(caller, owner, to, a, no, nr, na, nonce)
           IN Accepted(r) => Created(r) \subseteq {to} /\ Kept(r))
    /\ AllMintCalls(LAMBDA caller, to, amount, a, nr, nonce :
           LET r == mint(caller, to, amount, a, nr, nonce)
           IN Accepted(r) => Created(r) \subseteq {to} /\ Kept(r))
    /\ AllBurnCalls(LAMBDA caller, from_address, amount, a, nf, nonce :
           LET r == burn(caller, from_address, amount, a, nf, nonce)
           IN Accepted(r) => Created(r) = {} /\ Kept(r))

\* C17 amended: a record comes into existence for the receiver of an accepted
\* transfer, delegated transfer or mint, or for the sender of an accepted
\* confidential_transfer (a sender without a record is debited as from
\* ZERO_COMMITMENT); never for the owner of a delegated transfer or the holder
\* of a burn; and no operation deletes a record.
C17_RecordLifecycleWithSender ==
    /\ AllTransferCalls(LAMBDA caller, to, a, ns, nr, nonce :
           LET r == confidential_transfer(caller, to, a, ns, nr, nonce)
           IN Accepted(r) => Created(r) \subseteq {to, caller} /\ Kept(r))
    /\ AllApproveCalls(LAMBDA caller, spender, c, nonce :
           LET r == confidential_approve(caller, spender, c, nonce)
           IN Accepted(r) => Created(r) = {} /\ Kept(r))
    /\ AllTransferFromCalls(LAMBDA caller, owner, to, a, no, nr, na, nonce :
           LET r == confidential_transfer_from(caller, owner, to, a, no, nr, na, nonce)
           IN Accepted(r) => Created(r) \subseteq {to} /\ Kept(r))
    /\ AllMintCalls(LAMBDA caller, to, amount, a, nr, nonce :
           LET r == mint(caller, to, amount, a, nr, nonce)
           IN Accepted(r) => Created(r) \subseteq {to} /\ Kept(r))
    /\ AllBurnCalls(LAMBDA caller, from_address, amount, a, nf, nonce :
           LET r == burn(caller, from_address, amount, a, nf, nonce)
           IN Accepted(r) => Created(r) = {} /\ Kept(r))

\* the first call of the ledger was a transfer: it created the record of its
\* sender as well as that of its receiver
C17_Witness ==
    /\ last_call.op = "confidential_transfer"
    /\ block_num = 2
    /\ get_balance_commitment(last_call.caller).updates = 1
    /\ Cardinality(DOMAIN balance_commitments) = 2

\* C13: in every reachable state a plan computed from the stored commitments
\* (ZERO_COMMITMENT for an absent record), for any amount and blinding and
\* with next_nonce = get_nonce(caller) + 1, is accepted by the corresponding
\* operation when the caller is authorized and the target is not the source.
C13_PlansAccepted ==
    /\ CanCall(MaxTx) =>
        \A caller \in Addr, to \in Addr, amount \in Amounts, blinding \in Blindings :
           /\ to # caller =>
                LET plan == build_confidential_transfer(Current(caller), Current(to), amount,
                                                        blinding, get_nonce(caller) + 1)
                IN Accepted(confidential_transfer(caller, to, plan.amount_commitment,
                                                  plan.new_sender_commitment,
                                                  plan.new_receiver_commitment, plan.nonce))
           /\ caller = metadata.operator =>
                LET plan == build_mint(Current(to), amount, blinding, get_nonce(caller) + 1)
                IN Accepted(mint(caller, to, plan.amount, plan.amount_commitment,
                                 plan.new_receiver_commitment, plan.nonce))
           /\ (get_balance_commitment(to).exists /\ caller \in {to, metadata.operator}) =>
                LET plan == build_burn(Current(to), amount, blinding, get_nonce(caller) + 1)
                IN plan.err = OK
                   => Accepted(burn(caller, to, plan.amount, plan.amount_commitment,
                                    plan.new_from_commitment, plan.nonce))
    /\ CanCall(MaxTx + 1) =>
        \A caller \in Addr, owner \in Addr, to \in Addr, amount \in Amounts,
           blinding \in Blindings :
           (/\ to # owner
            /\ get_balance_commitment(owner).exists
            /\ get_confidential_approval(owner, caller).exists) =>
                LET plan == build_confidential_transfer_from(
                                Current(owner), Current(to),
                                get_confidential_approval(owner, caller).commitment,
                                amount, blinding, get_nonce(caller) + 1)
                IN plan.err = OK
                   => Accepted(confidential_transfer_from(
                                   caller, owner, to, plan.amount_commitment,
                                   plan.new_owner_commitment, plan.new_receiver_commitment,
                                   plan.new_allowance_commitment, plan.nonce))

\* C16: in a state whose supply invariant holds, replacing the commitment of
\* one balance record by a value not congruent to it modulo p makes
\* verify_supply_invariant report ok = false.
C16_TamperDetected ==
    verify_supply_invariant.ok =>
        \A address \in DOMAIN balance_commitments : \A commitment \in Ints :
            commitment % p # balance_commitments[address].commitment % p
            => Product(tamper(address, commitment), DOMAIN balance_commitments)
                  # metadata.supply_commitment

\* base ** exponent, by repeated multiplication
RECURSIVE Power(_, _)
Power(base, exponent) == IF exponent = 0 THEN 1 ELSE base * Power(base, exponent - 1)

\* the unwinding of a plan: the debited side multiplied by the amount
\* commitment, the credited side by its inverse
Rewound(new_commitment, amount_commitment) == (new_commitment * amount_commitment) % p
Unwound(new_commitment, amount_commitment) ==
    (new_commitment * helper_mod_inverse(amount_commitment)) % p

\* C18 as stated: for every prior commitment in [0, p), every amount and
\* blinding, unwinding a plan reproduces the commitments supplied to the
\* planner, and the plan's nonce is next_nonce.
C18_PlannerRoundTrip ==
    LET a == calc.args
        plan == calc.out
    IN (InField(a.c1) /\ InField(a.c2) /\ InField(a.c3)) =>
       /\ calc.fn = "build_confidential_transfer"
          => /\ plan.err = OK
             /\ Rewound(plan.new_sender_commitment, plan.amount_commitment) = a.c1
             /\ Unwound(plan.new_receiver_commitment, plan.amount_commitment) = a.c2
             /\ plan.nonce = a.nonce
       /\ calc.fn = "build_confidential_transfer_from"
          => /\ plan.err = OK
             /\ Rewound(plan.new_owner_commitment, plan.amount_commitment) = a.c1
             /\ Unwound(plan.new_receiver_commitment, plan.amount_commitment) = a.c2
             /\ Rewound(plan.new_allowance_commitment, plan.amount_commitment) = a.c3
             /\ plan.nonce = a.nonce
       /\ calc.fn = "build_mint"
          => /\ plan.err = OK
             /\ Unwound(plan.new_receiver_commitment, plan.amount_commitment) = a.c1
             /\ plan.nonce = a.nonce
       /\ calc.fn = "build_burn"
          => /\ plan.err = OK
             /\ Rewound(plan.new_from_commitment, plan.amount_commitment) = a.c1
             /\ plan.nonce = a.nonce

\* what a planner makes of a prior commitment that may be missing
OrZero(c) == IF Missing(c) THEN ZERO_COMMITMENT ELSE c

\* C18 amended: the round trip holds for prior commitments in [1, p); a prior
\* commitment 0 is taken for a missing one: as sender or receiver it is
\* planned as ZERO_COMMITMENT, as owner, allowance or burnt holder it makes
\* the planner raise.
C18_PlannerRoundTripNonZero ==
    LET a == calc.args
        plan == calc.out
    IN (InField(a.c1) /\ InField(a.c2) /\ InField(a.c3)) =>
       /\ calc.fn = "build_confidential_transfer"
          => /\ plan.err = OK
             /\ Rewound(plan.new_sender_commitment, plan.amount_commitment) = OrZero(a.c1)
             /\ Unwound(plan.new_receiver_commitment, plan.amount_commitment) = OrZero(a.c2)
             /\ plan.nonce = a.nonce
       /\ calc.fn = "build_confidential_transfer_from"
          => IF Missing(a.c1) \/ Missing(a.c3)
             THEN plan.err # OK
             ELSE /\ plan.err = OK
                  /\ Rewound(plan.new_owner_commitment, plan.amount_commitment) = a.c1
                  /\ Unwound(plan.new_receiver_commitment, plan.amount_commitment)
                        = OrZero(a.c2)
                  /\ Rewound(plan.new_allowance_commitment, plan.amount_commitment) = a.c3
                  /\ plan.nonce = a.nonce
       /\ calc.fn = "build_mint"
          => /\ plan.err = OK
             /\ Unwound(plan.new_receiver_commitment, plan.amount_commitment) = OrZero(a.c1)
             /\ plan.nonce = a.nonce
       /\ calc.fn = "build_burn"
          => IF Missing(a.c1)
             THEN plan.err # OK
             ELSE /\ plan.err = OK
                  /\ Rewound(plan.new_from_commitment, plan.amount_commitment) = a.c1
                  /\ plan.nonce = a.nonce

\* a delegated transfer was planned from three distinct non-zero commitments
\* with an amount commitment other than 1
C18_Witness ==
    /\ calc.fn = "build_confidential_transfer_from"
    /\ calc.out.err = OK
    /\ calc.out.amount_commitment # 1
    /\ Cardinality({calc.args.c1, calc.args.c2, calc.args.c3}) = 3
    /\ \A c \in {calc.args.c1, calc.args.c2, calc.args.c3} : c \in 1..(p - 1)

\* C19: for field elements c and a, verify_commitment_addition(c, a, c*a mod p)
\* and verify_commitment_subtraction(c*a mod p, c, a) are true; addition holds
\* exactly when new = old*a mod p, subtraction exactly when old = new*a mod p.
C19_VerifierRoundTrip ==
    LET a == calc.args
    IN /\ (calc.fn = "verify_commitment_addition" /\ InField(a.c1) /\ InField(a.c2))
          => /\ a.c3 = (a.c1 * a.c2) % p => calc.out = TRUE
             /\ a.c3 # (a.c1 * a.c2) % p => calc.out = FALSE
       /\ (calc.fn = "verify_commitment_subtraction" /\ InField(a.c2) /\ InField(a.c3))
          => /\ a.c1 = (a.c2 * a.c3) % p => calc.out = TRUE
             /\ a.c1 # (a.c2 * a.c3) % p => calc.out = FALSE

\* an addition whose product had to be reduced was verified
C19_Witness ==
    /\ calc.fn = "verify_commitment_addition"
    /\ calc.out = TRUE
    /\ calc.args.c1 * calc.args.c2 >= p
    /\ InField(calc.args.c1) /\ InField(calc.args.c2)

\* C20: (mod_inverse(x, p) * x) mod p = 1 for every x with x mod p # 0, and
\* mod_inverse(x, p) = 0 for x congruent to 0; mod_exp(b, e, m) = b^e mod m
\* for e >= 1, and mod_exp with exponent 0 returns 1 for every base.
C20_ModInverseLaw ==
    LET a == calc.args
    IN /\ calc.fn \in {"mod_inverse", "helper_mod_inverse"}
          => IF a.c1 % p = 0 THEN calc.out = 0 ELSE (calc.out * a.c1) % p = 1
       /\ calc.fn = "mod_inverse" => calc.out = mod_exp(a.c1, p - 2, p)
       /\ calc.fn = "mod_exp"
          => IF a.c2 = 0 THEN calc.out = 1 ELSE calc.out = Power(a.c1, a.c2) % a.c3

\* an inverse other than the element itself was computed
C20_Witness ==
    /\ calc.fn = "mod_inverse"
    /\ calc.out \notin {0, 1, calc.args.c1}
    /\ (calc.out * calc.args.c1) % p = 1

\* the kind of event an operation emits
EventOf(op) ==
    CASE op = "confidential_transfer" -> "ConfidentialTransfer"
      [] op = "confidential_transfer_from" -> "ConfidentialTransfer"
      [] op = "confidential_approve" -> "ConfidentialApprove"
      [] op = "mint" -> "MintCommitment"
      [] op = "burn" -> "BurnCommitment"

\* C21: every accepted call emits exactly one event, whose tx_id is the tx
\* counter's value before the call, and advances the counter by exactly 1; a
\* rejected call emits no event and leaves the counter alone; hence the
\* emitted tx_ids are 1, 2, 3, ... in order of acceptance.
C21_EventDiscipline ==
    /\ [][IF block_num' # block_num
          THEN /\ events' = Append(events, [event |-> EventOf(last_call'.op),
                                            tx_id |-> next_tx_id])
               /\ next_tx_id' = next_tx_id + 1
          ELSE /\ events' = events
               /\ next_tx_id' = next_tx_id]_vars
    /\ [](\A i \in 1..Len(events) : events[i].tx_id = i)

\* a call was rejected after two accepted ones: two events, the counter at 3
C21_Witness ==
    /\ result.err # OK
    /\ Len(events) = 2
    /\ next_tx_id = 3
    /\ events[2].tx_id = 2

\* what a missing optional commitment is planned as, given the plan's amount
\* commitment: the debited side and the credited side
DebitedFromZero(plan) == (ZERO_COMMITMENT * helper_mod_inverse(plan.amount_commitment)) % p
CreditedFromZero(plan) == (ZERO_COMMITMENT * plan.amount_commitment) % p

\* C22: build_confidential_transfer_from returns no plan when the owner or
\* the allowance commitment is missing (null or 0), build_burn when the from
\* commitment is; a missing optional commitment (any receiver, the sender of
\* build_confidential_transfer) is replaced by ZERO_COMMITMENT and a plan is
\* returned.
C22_PlannerValidation ==
    LET a == calc.args
        plan == calc.out
    IN /\ calc.fn = "build_confidential_transfer_from"
          => IF Missing(a.c1) \/ Missing(a.c3)
             THEN plan.err # OK /\ DOMAIN plan = {"err"}
             ELSE /\ plan.err = OK
                  /\ Missing(a.c2) => plan.new_receiver_commitment = CreditedFromZero(plan)
       /\ calc.fn = "build_burn"
          => IF Missing(a.c1)
             THEN plan.err # OK /\ DOMAIN plan = {"err"}
             ELSE plan.err = OK
       /\ calc.fn = "build_confidential_transfer"
          => /\ plan.err = OK
             /\ Missing(a.c1) => plan.new_sender_commitment = DebitedFromZero(plan)
             /\ Missing(a.c2) => plan.new_receiver_commitment = CreditedFromZero(plan)
       /\ calc.fn = "build_mint"
          => /\ plan.err = OK
             /\ Missing(a.c1) => plan.new_receiver_commitment = CreditedFromZero(plan)

\* a delegated transfer with an owner commitment and no allowance commitment
\* was refused a plan
C22_Witness ==
    /\ calc.fn = "build_confidential_transfer_from"
    /\ ~Missing(calc.args.c1)
    /\ Missing(calc.args.c3)
    /\ calc.out.err = "Spender must have an existing allowance commitment"

\* C23: an accepted confidential_transfer, confidential_approve or
\* confidential_transfer_from leaves total_supply and supply_commitment as
\* they were.
SupplyKept(r) ==
    Accepted(r) => /\ r.metadata.total_supply = metadata.total_supply
                   /\ r.metadata.supply_commitment = metadata.supply_commitment

C23_TransfersKeepSupply ==
    /\ AllTransferCalls(LAMBDA caller, to, a, ns, nr, nonce :
           SupplyKept(confidential_transfer(caller, to, a, ns, nr, nonce)))
    /\ AllApproveCalls(LAMBDA caller, spender, c, nonce :
           SupplyKept(confidential_approve(caller, spender, c, nonce)))
    /\ AllTransferFromCalls(LAMBDA caller, owner, to, a, no, nr, na, nonce :
           SupplyKept(confidential_transfer_from(caller, owner, to, a, no, nr, na, nonce)))

\* a delegated transfer was accepted after a mint: the minted supply stands
C23_Witness ==
    /\ last_call.op = "confidential_transfer_from"
    /\ metadata.total_supply = 1
    /\ metadata.supply_commitment \notin {0, 1}
    /\ Len(events) = 3
    /\ events[1].event = "MintCommitment"

\* the message of the first failing check of a list of <<fails, message>>
\* pairs, OK when none fails
RECURSIVE FirstFailing(_)
FirstFailing(checks) ==
    IF checks = << >> THEN OK
    ELSE IF Head(checks)[1] THEN Head(checks)[2]
    ELSE FirstFailing(Tail(checks))

\* commitments tried against a call: every value when the records the call
\* needs exist, the two extremes when it is rejected before reading any
Tried(records_exist) == IF records_exist THEN Ints ELSE {0, MaxInt}

\* C24: with the guard passed and the nonce right, confidential_transfer_from
\* reports a missing owner record, then a missing approval, whatever the
\* commitments passed, and burn a missing from record; among the algebraic
\* checks the first failing relation in the order owner/sender, receiver,
\* allowance is the one reported.
C24_ExistenceBeforeAlgebra ==
    /\ CanCall(MaxTx + 1) =>
       \A caller \in Addr, owner \in Addr :
       \A to \in Addr \ {owner} :
       LET tried == Tried(/\ owner \in DOMAIN balance_commitments
                          /\ (<<owner, caller>>) \in DOMAIN approvals)
       IN \A a \in tried, no \in tried, nr \in tried, na \in tried :
          confidential_transfer_from(caller, owner, to, a, no, nr, na, get_nonce(caller) + 1).err
          = FirstFailing(<<
              <<owner \notin DOMAIN balance_commitments, "Owner has no commitment">>,
              <<(<<owner, caller>>) \notin DOMAIN approvals, "No approval for spender">>,
              <<Current(owner) # (no * a) % p, "Owner commitment mismatch">>,
              <<nr # (Current(to) * a) % p, "Receiver commitment mismatch">>,
              <<get_confidential_approval(owner, caller).commitment # (na * a) % p,
                "Allowance commitment mismatch">> >>)
    /\ CanCall(MaxTx) =>
       \A from_address \in Addr :
       \A caller \in {from_address, metadata.operator} :
       LET tried == Tried(from_address \in DOMAIN balance_commitments)
       IN \A amount \in Amounts, a \in tried, nf \in tried :
          burn(caller, from_address, amount, a, nf, get_nonce(caller) + 1).err
          = FirstFailing(<<
              <<from_address \notin DOMAIN balance_commitments, "No commitment to burn from">>,
              <<Current(from_address) # (nf * a) % p, "From commitment mismatch">> >>)
    /\ AllTransferCalls(LAMBDA caller, to, a, ns, nr, nonce :
           (to # caller /\ ~BadNonce(caller, nonce))
           => confidential_transfer(caller, to, a, ns, nr, nonce).err
              = FirstFailing(<<
                  <<Current(caller) # (ns * a) % p, "Sender commitment mismatch">>,
                  <<nr # (Current(to) * a) % p, "Receiver commitment mismatch">> >>))

\* a delegated transfer from an address with neither record nor approval was
\* rejected for the missing owner record
C24_Witness ==
    /\ result.op = "confidential_transfer_from"
    /\ result.err = "Owner has no commitment"
    /\ approvals = << >>
    /\ balance_commitments # << >>

\* C25: an account holding a record can always spend: some amount commitment
\* and new sender commitment make its confidential_transfer to another
\* address pass the algebraic checks.
C25_AccountCanSpend ==
    \A address \in DOMAIN balance_commitments :
    \E to \in Addr \ {address} :
    \E a \in Ints, ns \in Ints, nr \in Ints :
        Accepted(confidential_transfer(address, to, a, ns, nr, get_nonce(address) + 1))

\* C26: an accepted call by anyone but the operator never leaves total_supply
\* greater than it was.
SupplyNotRaised(caller, r) ==
    (Accepted(r) /\ caller # metadata.operator)
    => r.metadata.total_supply <= metadata.total_supply

C26_OnlyOperatorRaisesSupply ==
    /\ AllTransferCalls(LAMBDA caller, to, a, ns, nr, nonce :
           SupplyNotRaised(caller, confidential_transfer(caller, to, a, ns, nr, nonce)))
    /\ AllApproveCalls(LAMBDA caller, spender, c, nonce :
           SupplyNotRaised(caller, confidential_approve(caller, spender, c, nonce)))
    /\ AllTransferFromCalls(LAMBDA caller, owner, to, a, no, nr, na, nonce :
           SupplyNotRaised(caller, confidential_transfer_from(caller, owner, to, a, no, nr, na, nonce)))
    /\ AllMintCalls(LAMBDA caller, to, amount, a, nr, nonce :
           SupplyNotRaised(caller, mint(caller, to, amount, a, nr, nonce)))
    /\ AllBurnCalls(LAMBDA caller, from_address, amount, a, nf, nonce :
           SupplyNotRaised(caller, burn(caller, from_address, amount, a, nf, nonce)))

\* C27: total_supply is never negative.
C27_SupplyNonNegative == metadata.total_supply >= 0

\* the outcome of submitting, as `kind` (confidential_transfer or mint), the
\* plan built from the commitments `sender` and `receiver`
Submit(kind, caller, to, sender, receiver, amount, blinding, nonce) ==
    IF kind = "mint"
    THEN LET plan == build_mint(receiver, amount, blinding, nonce)
         IN mint(caller, to, plan.amount, plan.amount_commitment,
                 plan.new_receiver_commitment, plan.nonce)
    ELSE LET plan == build_confidential_transfer(sender, receiver, amount, blinding, nonce)
         IN confidential_transfer(caller, to, plan.amount_commitment,
                                  plan.new_sender_commitment,
                                  plan.new_receiver_commitment, plan.nonce)

\* a caller entitled to submit `kind` for the receiver `to`
MaySubmit(kind, caller, to) ==
    IF kind = "mint" THEN caller = metadata.operator ELSE to # caller

PlanKinds == {"confidential_transfer", "mint"}

\* in the state after the first call: the plan built from the commitments
\* read before it is rejected for the receiver, the caller's nonce is still
\* the planned one, and the plan rebuilt from the stored commitments passes
StaleThenRebuilt(kind, caller, to, sender, receiver, amount, blinding, nonce) ==
    /\ Submit(kind, caller, to, sender, receiver, amount, blinding, nonce).err
          = "Receiver commitment mismatch"
    /\ get_nonce(caller) + 1 = nonce
    /\ Accepted(Submit(kind, caller, to, Current(caller), Current(to), amount, blinding, nonce))

\* the step commits the plan `first` built in the state it starts from
Commits(first) ==
    /\ Accepted(first)
    /\ balance_commitments' = first.balance_commitments
    /\ nonces' = first.nonces
    /\ metadata' = first.metadata

\* C28: when two callers build a transfer or mint plan for the same receiver
\* from the same state, the first submitted is accepted; if its amount
\* commitment is not 1 mod p the second is rejected with a receiver
\* commitment mismatch, the second caller's nonce is not consumed, and the
\* plan rebuilt from the new state with the same nonce is accepted.
C28_StalePlans ==
    /\ [](CanCall(MaxTx) =>
            \A kind \in PlanKinds, caller \in Addr, to \in Addr :
            \A amount \in Amounts, blinding \in Blindings :
               MaySubmit(kind, caller, to)
               => Accepted(Submit(kind, caller, to, Current(caller), Current(to), amount,
                                  blinding, get_nonce(caller) + 1)))
    /\ [][(block_num' # block_num /\ last_call'.op \in PlanKinds) =>
          \A first \in Addr, to \in Addr, amount1 \in Amounts, blinding1 \in Blindings :
            (/\ first = last_call'.caller
             /\ MaySubmit(last_call'.op, first, to)
             /\ create_commitment(amount1, blinding1) % p # 1
             /\ Commits(Submit(last_call'.op, first, to, Current(first), Current(to), amount1,
                               blinding1, get_nonce(first) + 1)))
            => \A kind \in PlanKinds, second \in Addr \ {first} :
               \A amount2 \in Amounts, blinding2 \in Blindings :
               \A sender \in {Current(second)}, receiver \in {Current(to)} :
               \A nonce \in {get_nonce(second) + 1} :
                  MaySubmit(kind, second, to)
                  => StaleThenRebuilt(kind, second, to, sender, receiver, amount2, blinding2,
                                      nonce)']_vars

\* C29: an accepted confidential_transfer changes only the balance records of
\* caller and `to`, the caller's nonce and the tx counter; an accepted
\* confidential_transfer_from only the balance records of owner and `to`, the
\* approval (owner, spender), the spender's nonce and the tx counter.
OthersKept(old, new, keys, touched) ==
    \A k \in keys \ touched :
        /\ k \in DOMAIN new <=> k \in DOMAIN old
        /\ k \in DOMAIN old => new[k] = old[k]

TransferFrame(r, holders, pairs, caller) ==
    Accepted(r) => /\ OthersKept(balance_commitments, r.balance_commitments, Addr, holders)
                   /\ OthersKept(approvals, r.approvals, Addr \X Addr, pairs)
                   /\ OthersKept(nonces, r.nonces, Addr, {caller})
                   /\ r.metadata = metadata
                   /\ r.next_tx_id = next_tx_id + 1

C29_TransferFrame ==
    /\ AllTransferCalls(LAMBDA caller, to, a, ns, nr, nonce :
           TransferFrame(confidential_transfer(caller, to, a, ns, nr, nonce),
                         {caller, to}, {}, caller))
    /\ AllTransferFromCalls(LAMBDA caller, owner, to, a, no, nr, na, nonce :
           TransferFrame(confidential_transfer_from(caller, owner, to, a, no, nr, na, nonce),
                         {owner, to}, {<<owner, caller>>}, caller))

\* a spender's delegated transfer from another address was accepted while a
\* third record, written two calls earlier, stands as it was
C29_Witness ==
    /\ last_call.op = "confidential_transfer_from"
    /\ block_num = 4
    /\ DOMAIN balance_commitments = Addr
    /\ \E owner \in Addr \ {last_call.caller} :
          /\ DOMAIN approvals = {<<owner, last_call.caller>>}
          /\ balance_commitments[owner].last_updated = 3
    /\ \E x \in Addr : /\ balance_commitments[x].last_updated = 1
                       /\ balance_commitments[x].updates = 1

\* C30: an accepted confidential_transfer_from leaves the approval record
\* (owner, spender) in place with commitment new_allowance_commitment and
\* its approved_at unchanged; approved_at is set only by the owner's
\* confidential_approve, to the height of that call, and no approval record
\* is ever deleted.
ApprovalKept(caller, owner, na, r) ==
    Accepted(r) => /\ (<<owner, caller>>) \in DOMAIN r.approvals
                   /\ r.approvals[<<owner, caller>>].commitment = na
                   /\ r.approvals[<<owner, caller>>].approved_at
                         = approvals[<<owner, caller>>].approved_at

Stamped(pair) ==
    /\ last_call' = [op |-> "confidential_approve", caller |-> pair[1]]
    /\ approvals'[pair].approved_at = block_num

C30_ApprovalSurvivesUse ==
    /\ [](AllTransferFromCalls(LAMBDA caller, owner, to, a, no, nr, na, nonce :
             ApprovalKept(caller, owner, na,
                          confidential_transfer_from(caller, owner, to, a, no, nr, na, nonce))))
    /\ [][/\ DOMAIN approvals \subseteq DOMAIN approvals'
          /\ \A pair \in DOMAIN approvals' :
                (\/ pair \notin DOMAIN approvals
                 \/ approvals'[pair].approved_at # approvals[pair].approved_at)
                => Stamped(pair)]_vars

\* an approval stamped at an earlier height was used by a delegated transfer
C30_Witness ==
    /\ last_call.op = "confidential_transfer_from"
    /\ block_num = 4
    /\ \E owner \in Addr \ {last_call.caller} :
          /\ DOMAIN approvals = {<<owner, last_call.caller>>}
          /\ approvals[<<owner, last_call.caller>>].approved_at < 3
          /\ balance_commitments[owner].last_updated = 3

====
